---- MODULE Spec2Model ----
(***************************************************************************)
(* Model of the /train handler of src/app.py: value iteration on a         *)
(* deterministic grid MDP, policy / Q-value extraction, conversion to      *)
(* 1-based indices and the greedy path walk.                               *)
(*                                                                         *)
(* Numbers.  The handler computes in IEEE doubles.  Every value it ever    *)
(* stores is 0.0, a power 0.9^k (cells that see the goal), or a term of    *)
(* b(k+1) = -1 + 0.9*b(k) (cells all of whose moves bump).  The model      *)
(* keeps them as fixed-point integers with unit One (1.0 = One).  The only *)
(* comparisons the handler makes are "candidate > best" and                *)
(* "delta < threshold"; equal doubles come from equal computations and so  *)
(* are equal fixed-point numbers, distinct ones differ by far more than    *)
(* the rounding of either representation, and 0.9^65 > 1e-3 > 0.9^66 in    *)
(* both.                                                                   *)
(***************************************************************************)
EXTENDS Integers, Sequences, FiniteSets, TLC

VARIABLES gridSize, startState, goalState, obstacle_set,
          pc, V, iterations, delta,
          policy, qValues, idx_map, policy_idx, qValues_idx,
          path, visited, current, reachable

vars == <<gridSize, startState, goalState, obstacle_set,
          pc, V, iterations, delta,
          policy, qValues, idx_map, policy_idx, qValues_idx,
          path, visited, current, reachable>>

inputs == <<gridSize, startState, goalState, obstacle_set>>

(***************************************************************************)
(* Bounds of the model.                                                    *)
(***************************************************************************)
\* largest side of the exhaustively enumerated grids
MaxN == 2
\* largest number of obstacles in the exhaustively enumerated grids
MaxObstacles == 2
\* largest number of obstacles in the grids of the fair specification
MaxFairObstacles == 1
\* side of the serpentine grid (one long corridor)
FarN == 11

(***************************************************************************)
(* Program constants.                                                      *)
(***************************************************************************)
\* fixed-point image of 1.0
One == 1000000
\* gamma = 0.9 = gammaNum / gammaDen
gammaNum == 9
gammaDen == 10
\* threshold = 1e-3
threshold == One \div 1000
max_iterations == 1000
\* float('-inf'): below every value the handler can form
NegInf == 0 - 100 * One

actions == <<"U", "D", "L", "R">>

(***************************************************************************)
(* Helpers of the handler.                                                 *)
(***************************************************************************)
Abs(x) == IF x < 0 THEN 0 - x ELSE x

\* variant: the discount left out (candidate = reward + V[nxt])
Undiscounted(v) == v

\* gamma * v
Discount(v) == (gammaNum * v) \div gammaDen

\* the cells range(gridSize) x range(gridSize)
GridCells(n) == {<<r, c>> : r \in 0 .. (n - 1), c \in 0 .. (n - 1)}

\* variant: the obstacles not filtered out of the state space
AllCellsAsStates == GridCells(gridSize)

valid_states == GridCells(gridSize) \ obstacle_set

is_valid(r, c) ==
    /\ 0 <= r /\ r < gridSize
    /\ 0 <= c /\ c < gridSize
    /\ <<r, c>> \notin obstacle_set

valid_for_path(r, c) ==
    /\ 0 <= r /\ r < gridSize
    /\ 0 <= c /\ c < gridSize
    /\ <<r, c>> \notin obstacle_set

\* the offset an action applies to (r, c)
Move(state, a) ==
    IF a = "U" THEN <<state[1] - 1, state[2]>>
    ELSE IF a = "D" THEN <<state[1] + 1, state[2]>>
    ELSE IF a = "L" THEN <<state[1], state[2] - 1>>
    ELSE IF a = "R" THEN <<state[1], state[2] + 1>>
    ELSE state

\* the reward of an ordinary move
MoveReward == 0

\* step(state, action) = <<nextState, reward>>
step(state, action) ==
    IF state = goalState THEN <<state, 0>>
    ELSE LET m == Move(state, action) IN
         IF ~is_valid(m[1], m[2]) THEN <<state, 0 - One>>
         ELSE IF m = goalState THEN <<m, One>>
         ELSE <<m, MoveReward>>

\* variant: a tie replaces the earlier action (>= for >)
ReplacesOnTie(candidate, best) == candidate >= best

\* variant: the comparison reversed (< for >)
ReplacesWhenLess(candidate, best) == candidate < best

\* the replacement test of both maximisation loops
Replaces(candidate, best) == candidate > best

\* value iteration's inner loop over the actions, from action i on; each
\* iteration's best_action_value is bound as a value before the next one
RECURSIVE BestActionValue(_, _, _, _)
BestActionValue(Vf, s, i, best) ==
    IF i > Len(actions) THEN best
    ELSE LET st == step(s, actions[i])
             candidate_value == st[2] + Discount(Vf[st[1]])
         IN  CHOOSE result \in
                 {BestActionValue(Vf, s, i + 1, b) :
                     b \in {IF Replaces(candidate_value, best)
                            THEN candidate_value ELSE best}} : TRUE

\* one sweep of value iteration over valid_states, reading the snapshot Vf
Sweep(Vf) ==
    [s \in valid_states |->
        IF s = goalState THEN 0 ELSE BestActionValue(Vf, s, 1, NegInf)]

\* abs(new_V[s] - V[s])
Change(newv, oldv) == Abs(newv - oldv)

\* delta of a sweep: starts at 0.0, max with every non-goal state's change
SweepDelta(Vf, newV) ==
    LET changes == {Change(newV[s], Vf[s]) : s \in valid_states \ {goalState}} \cup {0}
    IN  CHOOSE m \in changes : \A x \in changes : m >= x

\* policy extraction's inner loop: <<best_value, best_a>> from action i on
RECURSIVE BestPair(_, _, _, _)
BestPair(Vf, s, i, best) ==
    IF i > Len(actions) THEN best
    ELSE LET st == step(s, actions[i])
             val == st[2] + Discount(Vf[st[1]])
         IN  CHOOSE result \in
                 {BestPair(Vf, s, i + 1, b) :
                     b \in {IF Replaces(val, best[1])
                            THEN <<val, actions[i]>> ELSE best}} : TRUE

\* variant: the counter started at 0
IdxCounterFromZero(n, cell) ==
    Cardinality({d \in GridCells(n) :
            \/ d[1] < cell[1]
            \/ d[1] = cell[1] /\ d[2] < cell[2]})

\* idx_counter when the double loop reaches cell: cells enumerated before it, plus 1
IdxCounter(n, cell) ==
    1 + Cardinality({d \in GridCells(n) :
            \/ d[1] < cell[1]
            \/ d[1] = cell[1] /\ d[2] < cell[2]})

\* variant: the goal treated like every other state
GoalNotSpecial(s) == FALSE

\* "if s == goalState" of the extraction and of the re-keying loop
IsGoal(s) == s = goalState

\* the state s of valid_states with idx_map[s] = i
CellOf(im, i) == CHOOSE s \in valid_states : im[s] = i

\* the entries of f for the states of S, keyed by index
Rekey(f, im, S) == [i \in {im[s] : s \in S} |-> f[CellOf(im, i)]]

\* variant: the visited check left out
NeverSeen(cell) == FALSE

\* "current in visited" of the path walk
Seen(cell) == cell \in visited

EmptyMap == [x \in {} |-> 0]

(***************************************************************************)
(* Inputs.                                                                 *)
(***************************************************************************)
\* subsets of S with at most k elements
RECURSIVE SubsetsUpTo(_, _)
SubsetsUpTo(S, k) ==
    IF k = 0 \/ S = {} THEN {{}}
    ELSE LET x == CHOOSE y \in S : TRUE
             rest == S \ {x}
         IN  SubsetsUpTo(rest, k) \cup {T \cup {x} : T \in SubsetsUpTo(rest, k - 1)}

\* cells just outside an n x n grid
OutCells(n) == {<<0 - 1, 0>>, <<0, n>>, <<n, n>>}

\* a serpentine n x n grid: the odd rows are walls with one gap each,
\* alternately at the right and the left end
SerpentineObstacles(n) ==
    {<<r, c>> \in GridCells(n) :
        /\ r % 2 = 1
        /\ c # (IF (r \div 2) % 2 = 0 THEN n - 1 ELSE 0)}

SerpentineGoal(n) ==
    LET last == 2 * ((n - 1) \div 2)
    IN  <<last, IF (last \div 2) % 2 = 0 THEN n - 1 ELSE 0>>

\* well-formed requests on small grids: every obstacle set up to MaxObstacles
InitSmall ==
    /\ gridSize \in 1 .. MaxN
    /\ obstacle_set \in SubsetsUpTo(GridCells(gridSize), MaxObstacles)
    /\ startState \in GridCells(gridSize)
    /\ goalState \in GridCells(gridSize)

\* requests with a non-positive size or a start or goal outside the grid
InitMalformed ==
    /\ gridSize \in (0 - 1) .. MaxN
    /\ obstacle_set \in SubsetsUpTo(GridCells(gridSize), 1)
    /\ startState \in GridCells(gridSize) \cup OutCells(gridSize)
    /\ goalState \in GridCells(gridSize) \cup OutCells(gridSize)
    /\ \/ gridSize <= 0
       \/ startState \notin GridCells(gridSize)
       \/ goalState \notin GridCells(gridSize)

\* the open 3 x 3 grid from corner to corner
InitOpenThree ==
    /\ gridSize = 3
    /\ obstacle_set = {}
    /\ startState = <<0, 0>>
    /\ goalState = <<2, 2>>

\* the serpentine grid, from any start cell of its first row
InitFar ==
    /\ gridSize = FarN
    /\ obstacle_set = SerpentineObstacles(FarN)
    /\ goalState = SerpentineGoal(FarN)
    /\ startState \in {<<0, c>> : c \in 0 .. (FarN - 1)}

\* the handler's state once the request is read and V is initialised
InitHandler ==
    /\ pc = "iterate"
    /\ V = [s \in valid_states |-> 0]
    /\ iterations = 0
    /\ delta = 0
    /\ policy = EmptyMap
    /\ qValues = EmptyMap
    /\ idx_map = EmptyMap
    /\ policy_idx = EmptyMap
    /\ qValues_idx = EmptyMap
    /\ path = <<>>
    /\ visited = {}
    /\ current = startState
    /\ reachable = FALSE

Init ==
    /\ \/ InitSmall
       \/ InitOpenThree
       \/ InitMalformed
       \/ InitFar
    /\ InitHandler

\* the well-formed requests on small grids alone, with fewer obstacles
InitWellFormed ==
    /\ \/ InitSmall /\ Cardinality(obstacle_set) <= MaxFairObstacles
       \/ InitOpenThree
    /\ InitHandler

(***************************************************************************)
(* The handler, step by step.                                              *)
(***************************************************************************)
\* one iteration of "for _ in range(max_iterations)"
ValueIteration ==
    /\ pc = "iterate"
    /\ iterations < max_iterations
    /\ V' = Sweep(V)
    /\ delta' = SweepDelta(V, V')
    /\ iterations' = iterations + 1
    /\ pc' = IF delta' < threshold \/ iterations' = max_iterations
             THEN "extract" ELSE "iterate"
    /\ UNCHANGED <<inputs, policy, qValues, idx_map, policy_idx, qValues_idx,
                   path, visited, current, reachable>>

\* policy and qValues from the final V
ExtractPolicy ==
    /\ pc = "extract"
    /\ policy' = [s \in {t \in valid_states : ~IsGoal(t)} |->
                     BestPair(V, s, 1, <<NegInf, "None">>)[2]]
    /\ qValues' = [s \in valid_states |->
                     IF IsGoal(s) THEN 0
                     ELSE BestPair(V, s, 1, <<NegInf, "None">>)[1]]
    /\ pc' = "index"
    /\ UNCHANGED <<inputs, V, iterations, delta, idx_map, policy_idx, qValues_idx,
                   path, visited, current, reachable>>

\* idx_map, policy_idx, qValues_idx and the walk's initial state
IndexResults ==
    /\ pc = "index"
    /\ idx_map' = [cell \in GridCells(gridSize) |-> IdxCounter(gridSize, cell)]
    /\ policy_idx' = Rekey(policy, idx_map', {t \in valid_states : ~IsGoal(t)})
    /\ qValues_idx' = [i \in {idx_map'[s] : s \in valid_states} |->
                          IF IsGoal(CellOf(idx_map', i)) THEN 0
                          ELSE qValues[CellOf(idx_map', i)]]
    /\ path' = <<>>
    /\ visited' = {}
    /\ current' = startState
    /\ reachable' = FALSE
    /\ pc' = "walk"
    /\ UNCHANGED <<inputs, V, iterations, delta, policy, qValues>>

\* one iteration of the path walk's "while True"; the response follows the break
PathWalk ==
    /\ pc = "walk"
    /\ IF current \notin DOMAIN idx_map
       THEN \* idx_map[current] raises KeyError: no response is built
            /\ pc' = "KeyError"
            /\ UNCHANGED <<path, visited, current, reachable>>
       ELSE /\ path' = Append(path, idx_map[current])
            /\ IF current = goalState
               THEN /\ reachable' = TRUE
                    /\ pc' = "done"
                    /\ UNCHANGED <<visited, current>>
               ELSE IF Seen(current)
               THEN /\ pc' = "done"
                    /\ UNCHANGED <<visited, current, reachable>>
               ELSE /\ visited' = visited \cup {current}
                    /\ UNCHANGED reachable
                    /\ IF idx_map[current] \notin DOMAIN policy_idx
                       THEN /\ pc' = "done"
                            /\ UNCHANGED current
                       ELSE LET m == Move(current, policy_idx[idx_map[current]])
                            IN  IF ~valid_for_path(m[1], m[2])
                                THEN /\ pc' = "done"
                                     /\ UNCHANGED current
                                ELSE /\ current' = m
                                     /\ pc' = "walk"
    /\ UNCHANGED <<inputs, V, iterations, delta, policy, qValues,
                   idx_map, policy_idx, qValues_idx>>

Next ==
    \/ ValueIteration
    \/ ExtractPolicy
    \/ IndexResults
    \/ PathWalk

Spec == Init /\ [][Next]_vars

\* the handler runs to its end: no step of it waits on anything
FairSpec == InitWellFormed /\ [][Next]_vars /\ WF_vars(Next)

(***************************************************************************)
(* Notions the properties are stated in.                                   *)
(***************************************************************************)
InBounds(cell) ==
    /\ 0 <= cell[1] /\ cell[1] < gridSize
    /\ 0 <= cell[2] /\ cell[2] < gridSize

\* index(r, c) = r * gridSize + c + 1
Index(cell) == cell[1] * gridSize + cell[2] + 1

\* the cell an index stands for
CellAt(i) == <<(i - 1) \div gridSize, (i - 1) % gridSize>>

FourNeighbours(cell) ==
    {<<cell[1] - 1, cell[2]>>, <<cell[1] + 1, cell[2]>>,
     <<cell[1], cell[2] - 1>>, <<cell[1], cell[2] + 1>>}

Free(cell) == InBounds(cell) /\ cell \notin obstacle_set

FreeNeighbours(cell) == {c \in FourNeighbours(cell) : Free(c)}

\* breadth-first layers around a set of free cells: acc[k + 1] = cells at distance k
RECURSIVE Layers(_, _, _)
Layers(frontier, seen, acc) ==
    IF frontier = {} THEN acc
    ELSE LET next == (UNION {FreeNeighbours(c) : c \in frontier}) \ seen
         IN  Layers(next, seen \cup next, Append(acc, frontier))

\* layers of free cells around the goal (none when the goal is not a free cell)
GoalLayers == IF Free(goalState) THEN Layers({goalState}, {goalState}, <<>>) ELSE <<>>

CanReachGoal(L, s) == \E k \in DOMAIN L : s \in L[k]

\* number of moves of a shortest route from s to the goal
Dist(L, s) == (CHOOSE k \in DOMAIN L : s \in L[k]) - 1

Manhattan(a, b) == Abs(a[1] - b[1]) + Abs(a[2] - b[2])

WellFormed == gridSize > 0 /\ InBounds(startState) /\ InBounds(goalState)

Returned == pc = "done"

\* reward(s, a) + gamma * V(next(s, a)) for the i-th action
ActionValue(s, i) == step(s, actions[i])[2] + Discount(V[step(s, actions[i])[1]])

ActionValues(s) == [i \in 1 .. 4 |-> ActionValue(s, i)]

MaxOf(vals) == CHOOSE m \in {vals[i] : i \in 1 .. 4} : \A j \in 1 .. 4 : m >= vals[j]

\* the first position holding m
FirstAt(vals, m) == CHOOSE i \in 1 .. 4 : vals[i] = m /\ \A j \in 1 .. (i - 1) : vals[j] # m

\* action a and value q are the greedy choice for the action values vals
IsGreedy(vals, m, a, q) == q = m /\ a = actions[FirstAt(vals, m)]

(***************************************************************************)
(* C1.  For a grid with gridSize > 0 and an in-bounds, non-obstacle goal,  *)
(* the result has qValues[index(goal)] = 0.0 and no policy entry for the   *)
(* goal, whatever the obstacles and the start are.                         *)
(***************************************************************************)
C1_AbsorbingGoal ==
    (pc \in {"walk", "done"} /\ gridSize > 0 /\ Free(goalState)) =>
        /\ Index(goalState) \in DOMAIN qValues_idx
        /\ qValues_idx[Index(goalState)] = 0
        /\ Index(goalState) \notin DOMAIN policy_idx
        /\ goalState \notin DOMAIN policy

C1_Witness ==
    /\ Returned /\ Free(goalState) /\ Free(startState)
    /\ startState # goalState /\ obstacle_set # {}
    /\ qValues_idx[Index(goalState)] = 0
    /\ \E i \in DOMAIN qValues_idx : qValues_idx[i] = One
    /\ Index(goalState) \notin DOMAIN policy_idx

(***************************************************************************)
(* C2.  A request with a non-positive gridSize, or with start or goal      *)
(* outside the grid, is rejected and gets no policy, qValues, path or      *)
(* reachable result.                                                       *)
(***************************************************************************)
C2_MalformedGetsNoResult == (~WellFormed) => ~Returned

(***************************************************************************)
(* C5.  If every in-bounds 4-neighbour of the goal is an obstacle and the  *)
(* goal is not the start, the result has reachable = false and path is the *)
(* non-empty trace of the walk from start, never containing the goal.      *)
(***************************************************************************)
GoalWalledOff ==
    /\ goalState # startState
    /\ \A c \in FourNeighbours(goalState) : InBounds(c) => c \in obstacle_set

C5_WalledGoalUnreachable ==
    (Returned /\ GoalWalledOff) =>
        /\ reachable = FALSE
        /\ Len(path) >= 1
        /\ path[1] = Index(startState)
        /\ \A i \in 1 .. Len(path) : CellAt(path[i]) # goalState

C5_Witness ==
    /\ Returned /\ GoalWalledOff
    /\ Free(goalState) /\ Free(startState)
    /\ FourNeighbours(goalState) \cap obstacle_set # {}
    /\ reachable = FALSE
    /\ Len(path) >= 1
    /\ path[1] = Index(startState)

(***************************************************************************)
(* C6.  On the 3x3 grid without obstacles, start (0,0), goal (2,2): the    *)
(* result has reachable = true and a path of exactly 5 cells from start to *)
(* goal, every move of which is D or R and strictly decreases the          *)
(* Manhattan distance to the goal.                                         *)
(***************************************************************************)
OpenThreeByThree ==
    /\ gridSize = 3 /\ obstacle_set = {}
    /\ startState = <<0, 0>> /\ goalState = <<2, 2>>

C6_OpenGridPath ==
    (Returned /\ OpenThreeByThree) =>
        /\ reachable = TRUE
        /\ Len(path) = 5
        /\ CellAt(path[1]) = startState
        /\ CellAt(path[5]) = goalState
        /\ \A i \in 1 .. 4 :
            LET a == CellAt(path[i])
                b == CellAt(path[i + 1])
            IN  /\ b \in {<<a[1] + 1, a[2]>>, <<a[1], a[2] + 1>>}
                /\ policy_idx[path[i]] \in {"D", "R"}
                /\ Manhattan(b, goalState) < Manhattan(a, goalState)

C6_Witness ==
    /\ Returned /\ OpenThreeByThree
    /\ reachable = TRUE
    /\ Len(path) = 5

(***************************************************************************)
(* C8.  After value iteration every non-obstacle non-goal cell s has a     *)
(* policy entry: the first action in the order U, D, L, R attaining the    *)
(* maximum of reward(s,a) + gamma * V(next(s,a)) under the final V, and    *)
(* qValues[s] is that maximum (a later action replaces an earlier one only *)
(* when strictly greater).                                                 *)
(***************************************************************************)
C8_GreedyExtraction ==
    (pc \in {"index", "walk", "done"}) =>
        /\ DOMAIN policy = {s \in GridCells(gridSize) : Free(s) /\ s # goalState}
        /\ DOMAIN qValues = DOMAIN policy \cup ({goalState} \cap valid_states)
        /\ \A s \in DOMAIN policy :
            /\ IsGreedy(ActionValues(s), MaxOf(ActionValues(s)), policy[s], qValues[s])
            /\ (pc # "index") =>
                /\ Index(s) \in DOMAIN policy_idx
                /\ policy_idx[Index(s)] = policy[s]
                /\ qValues_idx[Index(s)] = qValues[s]

\* a tie between D and R, resolved for D
C8_Witness ==
    /\ Returned
    /\ \E s \in DOMAIN policy :
        /\ policy[s] = "D"
        /\ ActionValue(s, 4) = qValues[s]
        /\ ActionValue(s, 2) = qValues[s]
        /\ ActionValue(s, 1) < qValues[s]

(***************************************************************************)
(* C3.  For every well-formed input (gridSize > 0, start and goal in       *)
(* bounds, any obstacles) the solve terminates: value iteration runs at    *)
(* most max_iterations iterations, delta is non-negative in each, the path *)
(* walk ends, and a result with policy, qValues, path and reachable is     *)
(* returned without an exception; an unreachable goal is reported as       *)
(* reachable = false with the partial path.                                *)
(***************************************************************************)
\* the goal can be reached from the start through free cells
GoalReachable == startState = goalState \/ CanReachGoal(GoalLayers, startState)

C3_Safe ==
    /\ iterations <= max_iterations
    /\ delta >= 0
    /\ pc # "KeyError"
    /\ Len(path) <= gridSize * gridSize + 1
    /\ Returned =>
        /\ DOMAIN qValues_idx = {Index(s) : s \in valid_states}
        /\ DOMAIN policy_idx = {Index(s) : s \in valid_states \ {goalState}}
        /\ Len(path) >= 1
        /\ (~GoalReachable) => reachable = FALSE

C3_TotalOnWellFormed ==
    /\ [](WellFormed => C3_Safe)
    /\ <>(WellFormed => Returned)

C3_Witness ==
    /\ WellFormed /\ Returned
    /\ ~GoalReachable
    /\ startState \in obstacle_set
    /\ reachable = FALSE
    /\ Len(path) = 1
    /\ iterations > 1

(***************************************************************************)
(* C4.  In the path walk, whenever the current cell was already visited    *)
(* earlier in the same walk, the walk stops at that step and the result    *)
(* has reachable = false; the walk never loops forever.                    *)
(***************************************************************************)
C4_StopsOnRevisit ==
    (pc = "walk" /\ current \in visited) =>
        /\ pc' = "done"
        /\ reachable' = FALSE
        /\ path' = Append(path, Index(current))

\* every step appends one cell, and no walk is longer than the grid plus one
C4_WalkBounded == Len(path) <= gridSize * gridSize + 1

C4_CycleDetected == [][C4_StopsOnRevisit]_vars /\ []C4_WalkBounded

\* a 2-cell oscillation, stopped at the first revisit
C4_Witness ==
    /\ Returned
    /\ reachable = FALSE
    /\ Len(path) = 3
    /\ path[3] = path[1]
    /\ path[2] # path[1]

(***************************************************************************)
(* C7.  For every non-goal state from which the goal is reachable,         *)
(* qValues[s] is finite, and along any obstacle-free shortest path to the  *)
(* goal the qValues of the (non-goal) cells do not decrease from one cell  *)
(* to the next cell closer to the goal.                                    *)
(***************************************************************************)
Finite(x) == NegInf < x /\ x < 0 - NegInf

C7_ValuesGrowTowardsGoal ==
    (pc \in {"walk", "done"}) =>
        LET L == GoalLayers
        IN  \A k \in 2 .. Len(L) : \A s \in L[k] :
                /\ Finite(qValues_idx[Index(s)])
                /\ \A t \in FreeNeighbours(s) \cap L[k - 1] :
                    t # goalState => qValues_idx[Index(t)] >= qValues_idx[Index(s)]

\* a cell two moves from the goal, next to a cell one move from it, with a smaller value
C7_Witness ==
    /\ Returned
    /\ obstacle_set # {}
    /\ Len(GoalLayers) >= 3
    /\ \E s \in GoalLayers[3] : \E t \in FreeNeighbours(s) \cap GoalLayers[2] :
        /\ qValues_idx[Index(s)] > 0
        /\ qValues_idx[Index(s)] < qValues_idx[Index(t)]

(***************************************************************************)
(* C9.  For a grid with gridSize > 0 whose start and goal are in bounds    *)
(* and not obstacles, reachable is true exactly when the goal can be       *)
(* reached from start by 4-connected moves through in-bounds non-obstacle  *)
(* cells; when it is true, the path ends at the goal and has as many cells *)
(* as a shortest such route.                                               *)
(***************************************************************************)
C9_ReachableIffConnected ==
    (Returned /\ gridSize > 0 /\ Free(startState) /\ Free(goalState)) =>
        LET L == GoalLayers
        IN  /\ reachable = CanReachGoal(L, startState)
            /\ reachable =>
                /\ CellAt(path[Len(path)]) = goalState
                /\ Len(path) = Dist(L, startState) + 1

(***************************************************************************)
(* C10.  At every step of the path walk and in the result, path is a       *)
(* policy-following walk: its first entry is the 1-based index             *)
(* r*gridSize + c + 1 of start, each later entry is the in-bounds          *)
(* non-obstacle 4-neighbour of its predecessor in the direction of the     *)
(* predecessor's policy action, no cell occurs twice except that the last  *)
(* entry may repeat an earlier one, the goal occurs only as the last       *)
(* entry, and reachable is true exactly when the last entry is the goal.   *)
(***************************************************************************)
Direction(a, b) ==
    IF b = <<a[1] - 1, a[2]>> THEN "U"
    ELSE IF b = <<a[1] + 1, a[2]>> THEN "D"
    ELSE IF b = <<a[1], a[2] - 1>> THEN "L"
    ELSE IF b = <<a[1], a[2] + 1>> THEN "R"
    ELSE "none"

C10_PathFollowsPolicy ==
    (pc \in {"walk", "done"} /\ path # <<>>) =>
        /\ path[1] = Index(startState)
        /\ \A i \in 2 .. Len(path) :
            /\ Free(CellAt(path[i]))
            /\ path[i - 1] \in DOMAIN policy_idx
            /\ policy_idx[path[i - 1]] = Direction(CellAt(path[i - 1]), CellAt(path[i]))
        /\ \A i, j \in 1 .. Len(path) : (i < j /\ path[i] = path[j]) => j = Len(path)
        /\ \A i \in 1 .. (Len(path) - 1) : CellAt(path[i]) # goalState
        /\ reachable = (CellAt(path[Len(path)]) = goalState)

C10_Witness ==
    /\ Returned
    /\ obstacle_set # {}
    /\ reachable = TRUE
    /\ Len(path) >= 3
    /\ \E i \in 1 .. (Len(path) - 1) : policy_idx[path[i]] = "L"

====
